---------------------------- MODULE Spec2Model ----------------------------
(***************************************************************************)
(* Verification model of mag-roh/decision-making:                          *)
(*   - Assignment3: robust CVRP (two-index MTZ-load model, route           *)
(*     extraction, Monte Carlo demand simulation, cutting-plane loop);     *)
(*   - Assignment2: PESP event-activity network construction.              *)
(* Each sub-program has its own specification (SpecSim, SpecRoutes,        *)
(* SpecMTZ, SpecCP, SpecPESP); the variables of the other sub-programs     *)
(* stay at their idle value.                                               *)
(***************************************************************************)
EXTENDS Integers, Sequences, FiniteSets, TLC

VARIABLES
    pc,          \* position of the running sub-program
    Q,           \* vehicle capacity
    q_nominal,   \* nominal demand vector, index 0 = depot
    K,           \* number of vehicles
    x,           \* selected arcs (x[i,j].X > 0.5), or None
    routes,      \* list of routes
    t,           \* sample index of the simulation loop
    q_tilde,     \* sampled demand vector of the current sample
    totalV,      \* totalV[t] = total violation of sample t
    result,      \* return value of the simulation
    succ,        \* extract_routes: successor lists of the selected arcs
    fi,          \* extract_routes: position of "first" in succ[0]
    rt,          \* extract_routes: the route being walked
    cur,         \* extract_routes: the node the walk is at
    S,           \* run_cutting_plane: the scenario set (a list)
    history,     \* run_cutting_plane: the per-iteration report
    it,          \* run_cutting_plane: the iteration number
    worst_q,     \* simulate_k_and_get_worst: most violating sample so far
    worst_V,     \* simulate_k_and_get_worst: its total violation
    lines,       \* PESPModel.lines: list of <<line, stops>> in dict order
    travel_times,     \* PESPModel.travel_times: (from, to) -> minutes
    events,           \* PESPModel.events: event id -> (line, direction, station, type)
    event_list,       \* PESPModel.event_list
    event_counter,    \* PESPModel.event_counter
    activities,       \* PESPModel.activities: activity id -> record
    activity_counter, \* PESPModel.activity_counter
    event_dict,       \* build_network: (line, direction, station, type) -> event id
    bi,               \* build_network: position in the event loops
    event_d,          \* build_network: the departure event just created
    warnings,         \* the station pairs a "No travel time" warning was printed for
    headway_pairs,    \* solve_pesp: the set headway_pairs
    y_vars,           \* solve_pesp: the binary variables y_headway_e1_e2, in order
    constrs,          \* solve_pesp: the separation constraints hw_sep1/hw_sep2, in order
    v_coal,           \* solve_2.1(d): coalition (a tuple of companies) -> cost
    shapley_values,   \* solve_2.1(d): company -> Shapley value, in units of 1/N!
    s_i,              \* solve_2.1(d): position of i in all_companies
    s_j,              \* solve_2.1(d): position of S in S_list
    route,            \* apply_refill_recourse: the route
    C,                \* apply_refill_recourse: the cost matrix
    base_cost,        \* apply_refill_recourse: base_cost
    extra,            \* apply_refill_recourse: extra
    cap,              \* apply_refill_recourse: cap
    ri,               \* apply_refill_recourse: position of node in route
    rem,              \* apply_refill_recourse: rem
    trace,            \* apply_refill_recourse: what verbose=True prints, in order
    rec_result        \* apply_refill_recourse: the returned tuple

cvrpVars == <<Q, q_nominal, K, x, routes>>
simVars == <<t, q_tilde, totalV, result>>
extVars == <<succ, fi, rt, cur>>
cpVars == <<S, history, it, worst_q, worst_V>>
solveVars == <<headway_pairs, y_vars, constrs>>
pespVars == <<lines, travel_times, events, event_list, event_counter,
              activities, activity_counter, event_dict, bi, event_d, warnings,
              solveVars>>
shapVars == <<v_coal, shapley_values, s_i, s_j>>
recVars == <<route, C, base_cost, extra, cap, ri, rem, trace, rec_result>>
vars == <<pc, cvrpVars, simVars, extVars, cpVars, pespVars, shapVars, recVars>>

None == "None"

---------------------------------------------------------------------------
(* Bounds of the model *)
MaxDemand == 2      \* nominal demands 0..MaxDemand
MaxCap == 3         \* capacities 1..MaxCap
KSamples == 2       \* k, the number of Monte Carlo samples
Iterations == 3     \* iterations of the cutting-plane loop

\* nodes of the instance: depot 0 and three customers (instance.txt is not in
\* the repository; read_instance accepts any number of customers)
CUST == 1 .. 3
N == {0} \cup CUST

Max(a, b) == IF a > b THEN a ELSE b

RECURSIVE SeqSum(_)
SeqSum(s) == IF s = <<>> THEN 0 ELSE Head(s) + SeqSum(Tail(s))

RECURSIVE SeqMax(_)
SeqMax(s) == IF Len(s) = 1 THEN s[1] ELSE Max(Head(s), SeqMax(Tail(s)))

\* the elements of a finite set of integers in ascending order
RECURSIVE SortedSeq(_)
SortedSeq(A) ==
    IF A = {} THEN <<>>
    ELSE LET m == CHOOSE m \in A : \A o \in A : m <= o
         IN <<m>> \o SortedSeq(A \ {m})

---------------------------------------------------------------------------
(* Demand sampling: lo = int(math.floor(0.9*q)), hi = int(math.ceil(1.1*q)), *)
(* q_tilde[i] = rng.integers(lo, hi + 1), computed in IEEE-754 doubles.      *)

\* floor(log2(m)) for m >= 1
RECURSIVE Log2(_)
Log2(m) == IF m < 2 THEN 0 ELSE 1 + Log2(m \div 2)

RECURSIVE Pow2(_)
Pow2(e) == IF e = 0 THEN 1 ELSE 2 * Pow2(e - 1)

\* int(math.floor(0.9 * q)).  The double 0.9 is 0.9 + 2.2e-17; the rounded
\* product never drops below an integer 9q/10, so the floor is the exact one.
SampleLo(q) == (9 * q) \div 10

\* int(math.ceil(1.1 * q)).  The double 1.1 is 1.1 + 0.4 * 2^-52, so for
\* q = 10k the exact product is 11k + k * 2^-50.  It is rounded to the nearest
\* double (ties to even, 11k is even in the last place): it stays 11k unless
\* k * 2^-50 exceeds half an ulp of 11k, and then the ceiling is 11k + 1.
SampleHi(q) ==
    LET exact == (11 * q + 9) \div 10
    IN IF q > 0 /\ q % 10 = 0
       THEN LET k10 == q \div 10
                e == Log2(11 * k10)
                \* ulp(11k) in units of 2^-50
                ulp == IF e >= 2 THEN Pow2(e - 2) ELSE 1
            IN IF e >= 2 /\ 2 * k10 > ulp THEN exact + 1 ELSE exact
       ELSE exact

\* the values rng.integers(lo, hi + 1) can return
SampleRange(q) == SampleLo(q) .. SampleHi(q)

\* the vectors one pass of the sampling loop can produce (depot entry stays 0)
SampleSpace(qn) ==
    {qt \in [N -> 0 .. SampleHi(MaxDemand)] :
        /\ qt[0] = 0
        /\ \A i \in CUST : qt[i] \in SampleRange(qn[i])}

---------------------------------------------------------------------------
(* Route load and violation *)

\* cust = [i for i in r if i != 0]; load = int(q_tilde[cust].sum())
RECURSIVE RouteLoad(_, _)
RouteLoad(r, qt) ==
    IF r = <<>> THEN 0
    ELSE (IF Head(r) # 0 THEN qt[Head(r)] ELSE 0) + RouteLoad(Tail(r), qt)

route_violation_NoClamp(r, qt, capQ) == RouteLoad(r, qt) - capQ

\* route_violation: max(0, load - Q)
route_violation(r, qt, capQ) == Max(0, RouteLoad(r, qt) - capQ)

\* V = 0; for r in routes: V += max(0, load - Q)
RECURSIVE TotalViolation(_, _, _)
TotalViolation(rs, qt, capQ) ==
    IF rs = <<>> THEN 0
    ELSE route_violation(Head(rs), qt, capQ) + TotalViolation(Tail(rs), qt, capQ)

---------------------------------------------------------------------------
(* simulate_12b (solve_1.2b_cvrp.py) *)

\* nominal demand vectors read_instance can return: q[0] = 0
NominalDemands == {q \in [N -> 0 .. MaxDemand] : q[0] = 0}

\* the instances of the cutting-plane runs: the same positive demand at
\* every customer
UniformDemands == {q \in NominalDemands : q[1] >= 1 /\ \A i \in CUST : q[i] = q[1]}

\* route lists given to the simulation: every split of the customers into
\* consecutive depot-to-depot routes
RouteInputs ==
    { << <<0, 1, 2, 3, 0>> >>,
      << <<0, 1, 0>>, <<0, 2, 3, 0>> >>,
      << <<0, 1, 2, 0>>, <<0, 3, 0>> >>,
      << <<0, 1, 0>>, <<0, 2, 0>>, <<0, 3, 0>> >> }

IdleCvrp == K = 0 /\ x = None
IdleSim == t = 0 /\ q_tilde = None /\ totalV = <<>> /\ result = None
IdleExt == succ = None /\ fi = 0 /\ rt = <<>> /\ cur = 0
IdleCP == S = <<>> /\ history = <<>> /\ it = 0 /\ worst_q = None /\ worst_V = 0
IdleShap == v_coal = <<>> /\ shapley_values = <<>> /\ s_i = 0 /\ s_j = 0
IdleRec ==
    /\ route = <<>> /\ C = <<>> /\ base_cost = 0 /\ extra = 0 /\ cap = 0
    /\ ri = 0 /\ rem = 0 /\ trace = <<>> /\ rec_result = None
IdlePESP ==
    /\ lines = <<>> /\ travel_times = <<>> /\ events = <<>> /\ event_list = <<>>
    /\ event_counter = 0 /\ activities = <<>> /\ activity_counter = 0
    /\ event_dict = <<>> /\ bi = 0 /\ event_d = 0 /\ warnings = <<>>
    /\ headway_pairs = {} /\ y_vars = <<>> /\ constrs = <<>>

InitSim ==
    /\ pc = "sim_loop"
    /\ Q \in 1 .. MaxCap
    /\ q_nominal \in NominalDemands
    /\ routes \in RouteInputs
    /\ IdleCvrp
    /\ IdleExt
    /\ IdleRec
    /\ IdleShap
    /\ IdleCP
    /\ IdlePESP
    /\ t = 0
    /\ q_tilde = None
    /\ totalV = [i \in 0 .. KSamples - 1 |-> 0]     \* np.zeros(k, dtype=int)
    /\ result = None

\* one pass of "for t in range(k)": sample the demands, add up the violations
Sim12bSample ==
    /\ pc = "sim_loop"
    /\ t < KSamples
    /\ \E qt \in SampleSpace(q_nominal) :
        /\ q_tilde' = qt
        /\ totalV' = [totalV EXCEPT ![t] = TotalViolation(routes, qt, Q)]
    /\ t' = t + 1
    /\ UNCHANGED <<pc, cvrpVars, extVars, cpVars, result, pespVars, shapVars, recVars>>

\* the statistics after the loop; the mean is kept as <<sum, k>>
Sim12bReturn ==
    /\ pc = "sim_loop"
    /\ t = KSamples
    /\ result' =
         [num_violations |-> Cardinality({i \in DOMAIN totalV : totalV[i] > 0}),
          avg_violation |-> <<SeqSum([i \in 1 .. KSamples |-> totalV[i - 1]]), KSamples>>,
          max_violation |-> SeqMax([i \in 1 .. KSamples |-> totalV[i - 1]])]
    /\ pc' = "sim_done"
    /\ UNCHANGED <<cvrpVars, extVars, cpVars, t, q_tilde, totalV, pespVars, shapVars, recVars>>

NextSim == Sim12bSample \/ Sim12bReturn

SpecSim == InitSim /\ [][NextSim]_vars

\* C2: every sampled demand of a customer lies within 10% of its nominal
\* demand, 9*q_i <= 10*q_tilde[i] <= 11*q_i, and the depot entry is 0.
C2_SampleWithinTenPercent ==
    (pc \in {"sim_loop", "sim_done"} /\ t > 0) =>
        /\ q_tilde[0] = 0
        /\ \A i \in CUST :
            /\ 9 * q_nominal[i] <= 10 * q_tilde[i]
            /\ 10 * q_tilde[i] <= 11 * q_nominal[i]

\* the total violation stated directly: per route, the demand of each customer
\* times the number of its visits on the route, less Q, when positive
VisitCount(r, c) == Cardinality({p \in DOMAIN r : r[p] = c})

RECURSIVE WeightedSum(_, _, _)
WeightedSum(A, r, qt) ==
    IF A = {} THEN 0
    ELSE LET c == CHOOSE c \in A : TRUE
         IN VisitCount(r, c) * qt[c] + WeightedSum(A \ {c}, r, qt)

RECURSIVE ExcessSum(_, _, _, _)
ExcessSum(I, rs, qt, capQ) ==
    IF I = {} THEN 0
    ELSE LET i == CHOOSE i \in I : TRUE
             load == WeightedSum(CUST, rs[i], qt)
         IN (IF load > capQ THEN load - capQ ELSE 0) + ExcessSum(I \ {i}, rs, qt, capQ)

RECURSIVE TotalsFrom(_)
TotalsFrom(i) == IF i = KSamples THEN 0 ELSE totalV[i] + TotalsFrom(i + 1)

C3State ==
    /\ (pc \in {"sim_loop", "sim_done"} /\ t > 0) =>
           totalV[t - 1] = ExcessSum(DOMAIN routes, routes, q_tilde, Q)
    /\ pc = "sim_done" =>
        /\ result.num_violations = Cardinality({i \in 0 .. KSamples - 1 : totalV[i] > 0})
        /\ result.avg_violation[2] = KSamples
        /\ result.avg_violation[1] = TotalsFrom(0)
        /\ \A i \in 0 .. KSamples - 1 : totalV[i] <= result.max_violation
        /\ \E i \in 0 .. KSamples - 1 : totalV[i] = result.max_violation
        /\ 0 <= result.num_violations
        /\ result.num_violations <= KSamples
        /\ (result.num_violations = 0 <=> result.max_violation = 0)

\* a total that has been stored is not touched by the later samples
C3Frozen == \A i \in 0 .. KSamples - 1 : i < t => totalV'[i] = totalV[i]

\* C3: each sample's total violation is the sum over the routes of
\* max(0, load - Q); the result counts the samples with a positive total and
\* gives their mean and maximum, 0 <= num_violations <= k, and
\* num_violations = 0 exactly when max_violation = 0.
C3_SimulationTotals == [](C3State) /\ [][pc = "sim_loop" => C3Frozen]_vars

C3_Witness ==
    /\ pc = "sim_done"
    /\ result.num_violations > 0
    /\ result.num_violations < KSamples
    /\ result.max_violation > 1
    /\ Len(routes) > 1

---------------------------------------------------------------------------
(* extract_routes (solve_1.2a_cvrp.py), extract_routes_from_x (solve_1.2c) *)

\* succ[i]: the j != i with x[i, j].X > 0.5, in ascending order of j; arcs
\* into the depot left out
SuccOf_NoDepotArcs(xs) ==
    [i \in N |-> SortedSeq({j \in N : j # i /\ j # 0 /\ <<i, j>> \in xs})]

\* succ[i]: the j != i with x[i, j].X > 0.5, in ascending order of j
SuccOf(xs) == [i \in N |-> SortedSeq({j \in N : j # i /\ <<i, j>> \in xs})]

\* the walk is cut off at this length in the model (a walk on |N| nodes that is
\* longer than |N| + 1 has entered a cycle and never ends)
MaxWalk == 6

\* the while loop of one route: follow the first successor until the depot or
\* a node without successor is reached
RECURSIVE WalkFrom(_, _)
WalkFrom(sc, r) ==
    LET c == r[Len(r)]
    IN IF c = 0 \/ sc[c] = <<>> \/ Len(r) >= MaxWalk THEN r
       ELSE WalkFrom(sc, Append(r, sc[c][1]))

\* extract_routes_from_x as one call: one route per arc leaving the depot
ExtractRoutesFromX(xs) ==
    LET sc == SuccOf(xs)
    IN [i \in 1 .. Len(sc[0]) |-> WalkFrom(sc, <<0, sc[0][i]>>)]

\* arc selections given to extract_routes: every customer has at most one
\* selected outgoing arc (possibly a self arc), the depot any set of arcs
ArcInputs ==
    {{<<i, s[i]>> : i \in {c \in CUST : s[c] # -1}} \cup {<<0, j>> : j \in D} :
        s \in [CUST -> N \cup {-1}], D \in SUBSET CUST}

InitRoutes ==
    /\ pc = "ext_start"
    /\ x \in ArcInputs
    /\ K \in 0 .. Cardinality(CUST)
    /\ Q = 0
    /\ q_nominal = None
    /\ routes = <<>>
    /\ IdleSim
    /\ IdleExt
    /\ IdleRec
    /\ IdleShap
    /\ IdleCP
    /\ IdlePESP

\* lines 99-106: build succ, routes = []
ExtBuildSucc ==
    /\ pc = "ext_start"
    /\ succ' = SuccOf(x)
    /\ routes' = <<>>
    /\ fi' = 1
    /\ pc' = "ext_for"
    /\ UNCHANGED <<Q, q_nominal, K, x, simVars, rt, cur, cpVars, pespVars, shapVars, recVars>>

\* for first in succ[0]: rt = [0, first]; cur = first
ExtStartRoute ==
    /\ pc = "ext_for"
    /\ fi <= Len(succ[0])
    /\ rt' = <<0, succ[0][fi]>>
    /\ cur' = succ[0][fi]
    /\ pc' = "ext_while"
    /\ UNCHANGED <<cvrpVars, simVars, succ, fi, cpVars, pespVars, shapVars, recVars>>

\* while cur != 0: nxts = succ[cur]; cur = nxts[0]; rt.append(cur)
ExtWalk ==
    /\ pc = "ext_while"
    /\ cur # 0
    /\ succ[cur] # <<>>
    /\ Len(rt) < MaxWalk
    /\ cur' = succ[cur][1]
    /\ rt' = Append(rt, succ[cur][1])
    /\ UNCHANGED <<pc, cvrpVars, simVars, succ, fi, cpVars, pespVars, shapVars, recVars>>

\* loop exit (cur == 0, or "if not nxts: break"); routes.append(rt)
ExtEndRoute ==
    /\ pc = "ext_while"
    /\ (cur = 0 \/ succ[cur] = <<>>)
    /\ routes' = Append(routes, rt)
    /\ fi' = fi + 1
    /\ pc' = "ext_for"
    /\ UNCHANGED <<Q, q_nominal, K, x, simVars, succ, rt, cur, cpVars, pespVars, shapVars, recVars>>

\* return routes
ExtReturn ==
    /\ pc = "ext_for"
    /\ fi > Len(succ[0])
    /\ pc' = "ext_done"
    /\ UNCHANGED <<cvrpVars, simVars, extVars, cpVars, pespVars, shapVars, recVars>>

NextRoutes == ExtBuildSucc \/ ExtStartRoute \/ ExtWalk \/ ExtEndRoute \/ ExtReturn

SpecRoutes == InitRoutes /\ [][NextRoutes]_vars

\* the statements of extract_routes run one after the other until it returns
FairSpecRoutes == SpecRoutes /\ WF_vars(NextRoutes)

OutDeg(xs, i) == Cardinality({a \in xs : a[1] = i})
InDeg(xs, i) == Cardinality({a \in xs : a[2] = i})

\* every customer has exactly one selected outgoing and one selected incoming
\* arc, the depot has k selected arcs to customers
DegreeOK(xs, k) ==
    /\ \A i \in CUST : OutDeg(xs, i) = 1 /\ InDeg(xs, i) = 1
    /\ Cardinality({a \in xs : a[1] = 0 /\ a[2] \in CUST}) = k

RECURSIVE VisitsIn(_, _, _)
VisitsIn(rs, i, c) ==
    IF i > Len(rs) THEN 0 ELSE VisitCount(rs[i], c) + VisitsIn(rs, i + 1, c)

C4State ==
    DegreeOK(x, K) =>
        /\ Len(rt) <= Cardinality(N) + 1
        /\ pc = "ext_done" =>
            /\ Len(routes) = K
            /\ \A i \in DOMAIN routes :
                /\ Len(routes[i]) >= 3
                /\ routes[i][1] = 0
                /\ routes[i][Len(routes[i])] = 0
            /\ \A c \in CUST : VisitsIn(routes, 1, c) <= 1
            /\ routes = ExtractRoutesFromX(x)

\* C4: on an arc selection in which every customer has exactly one outgoing and
\* one incoming arc and the depot has K arcs to customers, extract_routes
\* terminates and returns K routes, each from the depot back to the depot,
\* and no customer occurs twice.
C4_ExtractRoutes == [](C4State) /\ (DegreeOK(x, K) => <>(pc = "ext_done"))

C4_Witness ==
    /\ pc = "ext_done"
    /\ DegreeOK(x, K)
    /\ K = 2
    /\ \E i \in DOMAIN routes : Len(routes[i]) = 4

---------------------------------------------------------------------------
(* solve_cvrp_two_index (solve_1.2a_cvrp.py) and                           *)
(* solve_scenario_based_two_index (solve_1.2c_cvrp.py): the constraints.   *)
(* The solver returns any x for which the model is feasible (an incumbent  *)
(* under the time limit need not be optimal), or no solution.              *)

\* the binary x with one arc out of every customer; x[0, 0] = 0
SolverArcSets ==
    {{<<i, s[i]>> : i \in CUST} \cup {<<0, j>> : j \in D} :
        s \in [CUST -> N], D \in SUBSET CUST}

\* no self arcs; each customer exactly one in and one out; depot K out, K in
DegreeConstraints(xs, k) ==
    /\ \A i \in N : <<i, i>> \notin xs
    /\ \A i \in CUST : OutDeg(xs, i) = 1 /\ InDeg(xs, i) = 1
    /\ Cardinality({a \in xs : a[1] = 0 /\ a[2] \in CUST}) = k
    /\ Cardinality({a \in xs : a[2] = 0 /\ a[1] \in CUST}) = k

Sel(xs, i, j) == IF <<i, j>> \in xs THEN 1 ELSE 0

\* the load constraints without the arc term Q * x[i, j]
MTZ_NoArcTerm(xs, u, q, capQ) ==
    /\ \A i \in CUST : u[i] >= q[i] /\ u[i] <= capQ
    /\ \A i \in CUST : \A j \in CUST :
        i # j => u[i] - u[j] <= capQ - q[j]

\* u[i] >= q[i], u[i] <= Q, and u[i] - u[j] + Q * x[i, j] <= Q - q[j], i # j
MTZ(xs, u, q, capQ) ==
    /\ \A i \in CUST : u[i] >= q[i] /\ u[i] <= capQ
    /\ \A i \in CUST : \A j \in CUST :
        i # j => u[i] - u[j] + capQ * Sel(xs, i, j) <= capQ - q[j]

\* loads u exist.  u is a continuous variable in [0, Q]; the constraints are
\* difference constraints with integer data, so they have a real solution
\* exactly when they have an integer one.
LoadsExist(xs, q, capQ) == \E u \in [CUST -> 0 .. capQ] : MTZ(xs, u, q, capQ)

\* the x that obey the degree constraints, for each number of vehicles
DegreeFeasible ==
    [k \in 0 .. Cardinality(CUST) |->
        {xs \in SolverArcSets : DegreeConstraints(xs, k)}]

\* the x that are feasible for every scenario of the list scen
FeasibleX(capQ, scen, k) ==
    {xs \in DegreeFeasible[k] :
        \A si \in DOMAIN scen : LoadsExist(xs, scen[si], capQ)}

InitTwoIndex ==
    /\ pc = "ti_start"
    /\ Q \in 1 .. MaxCap
    /\ q_nominal \in NominalDemands
    /\ K \in 1 .. Cardinality(CUST)
    /\ x = None
    /\ routes = <<>>
    /\ IdleSim
    /\ IdleExt
    /\ IdleRec
    /\ IdleShap
    /\ IdleCP
    /\ IdlePESP

\* m.optimize() found an incumbent
TwoIndexSolve ==
    /\ pc = "ti_start"
    /\ \E xs \in FeasibleX(Q, <<q_nominal>>, K) : x' = xs
    /\ pc' = "ti_solved"
    /\ UNCHANGED <<Q, q_nominal, K, routes, simVars, extVars, cpVars, pespVars, shapVars, recVars>>

\* m.optimize() ended without a solution: info["obj"] is None
TwoIndexNoSolution ==
    /\ pc = "ti_start"
    /\ pc' = "ti_none"
    /\ UNCHANGED <<cvrpVars, simVars, extVars, cpVars, pespVars, shapVars, recVars>>

\* __main__: if info["obj"] is not None: routes = extract_routes(x, ...)
TwoIndexRoutes ==
    /\ pc = "ti_solved"
    /\ routes' = ExtractRoutesFromX(x)
    /\ pc' = "ti_routes"
    /\ UNCHANGED <<Q, q_nominal, K, x, simVars, extVars, cpVars, pespVars, shapVars, recVars>>

NextTwoIndex == TwoIndexSolve \/ TwoIndexNoSolution \/ TwoIndexRoutes

SpecTwoIndex == InitTwoIndex /\ [][NextTwoIndex]_vars

\* following the selected arcs from customer c leads to the depot
RECURSIVE ReachesDepot(_, _, _)
ReachesDepot(xs, c, fuel) ==
    IF c = 0 THEN TRUE
    ELSE IF fuel = 0 THEN FALSE
    ELSE LET nx == {j \in N : <<c, j>> \in xs}
         IN \E j \in nx : ReachesDepot(xs, j, fuel - 1)

\* with one arc out of every customer, a customer lies on a cycle of customers
\* exactly when the arcs from it never reach the depot
NoCustomerCycle(xs) == \A c \in CUST : ReachesDepot(xs, c, Cardinality(CUST))

CapacityKept == \A i \in DOMAIN routes : WeightedSum(CUST, routes[i], q_nominal) <= Q

---------------------------------------------------------------------------
(* run_cutting_plane and simulate_k_and_get_worst (solve_1.2c_cvrp.py).    *)
(* The cost matrix C and the solver's obj, runtime and gap play no part in *)
(* the control flow beyond "obj is None" and are left out, and so are the  *)
(* report-only history fields num_viol_samples and avg_violation.          *)

\* duplicate = any(np.array_equal(worst_q, q_s) for q_s in S)
\* every worst scenario counts as already present
Duplicate_Always(Sc, wq) == TRUE

\* duplicate = any(np.array_equal(worst_q, q_s) for q_s in S)
Duplicate(Sc, wq) == \E i \in DOMAIN Sc : Sc[i] = wq

\* the worst scenario replaces the last element of S
AddScenario_Overwrite(Sc, wq, wV) ==
    IF wV > 0
    THEN IF ~Duplicate(Sc, wq) THEN [Sc EXCEPT ![Len(Sc)] = wq] ELSE Sc
    ELSE Sc

\* lines 208-221: S.append(worst_q) if worst_V > 0 and not a duplicate
AddScenario(Sc, wq, wV) ==
    IF wV > 0
    THEN IF ~Duplicate(Sc, wq) THEN Append(Sc, wq) ELSE Sc
    ELSE Sc

InitCP ==
    /\ pc = "cp_solve"
    /\ Q \in 1 .. MaxCap
    /\ q_nominal \in UniformDemands
    /\ K \in 1 .. Cardinality(CUST)
    /\ x = None
    /\ routes = <<>>
    /\ IdleSim
    /\ IdleExt
    /\ IdleRec
    /\ IdleShap
    /\ S = <<q_nominal>>            \* S = [q_nom.copy()]
    /\ history = <<>>
    /\ it = 1
    /\ worst_q = None
    /\ worst_V = 0
    /\ IdlePESP

\* the solve of iteration it finds an incumbent
CPSolve ==
    /\ pc = "cp_solve"
    /\ it <= Iterations
    /\ pc' = "cp_routes"
    /\ \E xs \in FeasibleX(Q, S, K) : x' = xs
    /\ UNCHANGED <<Q, q_nominal, K, routes, simVars, extVars, cpVars, pespVars, shapVars, recVars>>

\* the loop goes on to the next iteration when no incumbent is found
CPNoSolution_Continue ==
    /\ pc = "cp_solve"
    /\ it <= Iterations
    /\ x' = None
    /\ it' = it + 1
    /\ pc' = "cp_solve"
    /\ UNCHANGED <<Q, q_nominal, K, routes, simVars, extVars, S, history, worst_q,
                   worst_V, pespVars, shapVars, recVars>>

\* solve_info["obj"] is None: break
CPNoSolution ==
    /\ pc = "cp_solve"
    /\ it <= Iterations
    /\ pc' = "cp_done"
    /\ x' = None
    /\ UNCHANGED <<Q, q_nominal, K, routes, simVars, extVars, cpVars, pespVars, shapVars, recVars>>

\* range(1, iterations + 1) is exhausted
CPLoopEnd ==
    /\ pc = "cp_solve"
    /\ it > Iterations
    /\ pc' = "cp_done"
    /\ UNCHANGED <<cvrpVars, simVars, extVars, cpVars, pespVars, shapVars, recVars>>

\* routes = extract_routes_from_x(x); the simulation starts (lines 51-59)
CPRoutes ==
    /\ pc = "cp_routes"
    /\ routes' = ExtractRoutesFromX(x)
    /\ t' = 0
    /\ totalV' = [i \in 0 .. KSamples - 1 |-> 0]
    /\ worst_q' = None
    /\ worst_V' = -1
    /\ pc' = "cp_sim"
    /\ UNCHANGED <<Q, q_nominal, K, x, q_tilde, result, extVars, S, history, it, pespVars, shapVars, recVars>>

\* one pass of "for t in range(k)" of simulate_k_and_get_worst; the sample
\* q_tilde is local to the pass (worst_q keeps a copy of it)
CPSample ==
    /\ pc = "cp_sim"
    /\ t < KSamples
    /\ \E qt \in SampleSpace(q_nominal) :
        LET V == TotalViolation(routes, qt, Q)
        IN /\ totalV' = [totalV EXCEPT ![t] = V]
           /\ IF V > worst_V
              THEN worst_V' = V /\ worst_q' = qt
              ELSE UNCHANGED <<worst_V, worst_q>>
    /\ t' = t + 1
    /\ UNCHANGED <<pc, cvrpVars, q_tilde, result, extVars, S, history, it, pespVars, shapVars, recVars>>

\* the simulation returns (its locals go out of scope); step (3) and the
\* history entry of the iteration
CPUpdate ==
    /\ pc = "cp_sim"
    /\ t = KSamples
    /\ S' = AddScenario(S, worst_q, worst_V)
    /\ history' = Append(history,
         [iteration |-> it,
          S_size |-> Len(S'),
          max_violation |-> SeqMax([i \in 1 .. KSamples |-> totalV[i - 1]]),
          worst_demands_customers |->
              IF worst_V > 0 THEN [i \in CUST |-> worst_q[i]] ELSE <<>>])
    /\ it' = it + 1
    /\ pc' = "cp_solve"
    /\ t' = 0
    /\ q_tilde' = None
    /\ totalV' = <<>>
    /\ worst_q' = None
    /\ worst_V' = 0
    /\ UNCHANGED <<cvrpVars, result, extVars, pespVars, shapVars, recVars>>

NextCP == CPSolve \/ CPNoSolution \/ CPLoopEnd \/ CPRoutes \/ CPSample \/ CPUpdate

SpecCP == InitCP /\ [][NextCP]_vars

C1State ==
    /\ Len(S) >= 1
    /\ S[1] = q_nominal
    /\ \A i \in DOMAIN S : \A j \in DOMAIN S : i # j => S[i] # S[j]
    /\ Len(S) <= 1 + (it - 1)

\* S only grows at its end, by at most one element per step
C1Step ==
    /\ Len(S') >= Len(S)
    /\ Len(S') <= Len(S) + 1
    /\ \A i \in DOMAIN S : S'[i] = S[i]
    /\ Len(S') > Len(S) => it' = it + 1

\* C1: S starts as [nominal]; S[0] stays the nominal vector, no element of S
\* is removed or changed, S has no two equal vectors, and |S| is at most
\* 1 + the number of completed iterations.
C1_ScenarioSet == (S = <<q_nominal>>) /\ [](C1State) /\ [][C1Step]_vars

C1_Witness ==
    /\ pc = "cp_done"
    /\ Len(S) = 3
    /\ it = Iterations + 1

---------------------------------------------------------------------------
(* PESPModel (Assignment2/Exercise 1.1e.py): the event-activity network.   *)
(* a2_part1.xlsx is not in the repository; the lines and travel times are  *)
(* inputs.  A line's stop list names each station once.                    *)

T == 30              \* PESPModel(lines, travel_times, T=30)
NoEvent == -1        \* event_dict.get(key) is None
NoTime == -1         \* travel_times.get(...) is None

MaxLines == 2        \* number of lines of an input

LineIds == {800, 3000, 3900}

\* stop lists: a stretch of the corridor Asd - Ut - Ehv, in either direction
StopLists ==
    { <<"Asd">>, <<"Ut">>, <<"Ehv">>,
      <<"Asd", "Ut">>, <<"Ut", "Asd">>, <<"Ut", "Ehv">>, <<"Ehv", "Ut">>,
      <<"Asd", "Ut", "Ehv">>, <<"Ehv", "Ut", "Asd">> }

\* the lines dict in insertion order: distinct line numbers
LineInputs ==
    {ls \in UNION {[1 .. n -> LineIds \X StopLists] : n \in 1 .. MaxLines} :
        \A i \in DOMAIN ls : \A j \in DOMAIN ls : i # j => ls[i][1] # ls[j][1]}

\* travel time sheets: one orientation per section; both orientations with
\* different times and one section missing; a single section with time 0
TravelTimeInputs ==
    { (<<"Asd", "Ut">> :> 20) @@ (<<"Ut", "Ehv">> :> 45),
      (<<"Asd", "Ut">> :> 20) @@ (<<"Ut", "Asd">> :> 21),
      (<<"Ehv", "Ut">> :> 0) }

Put(d, k, v) == (k :> v) @@ d

Reverse(sq) == [i \in 1 .. Len(sq) |-> sq[Len(sq) + 1 - i]]

\* path = list(reversed(station_sequence)) if direction == 'B' else station_sequence
Path(stops, d) == IF d = "B" THEN Reverse(stops) ELSE stops

RECURSIVE Flatten(_)
Flatten(ss) == IF ss = <<>> THEN <<>> ELSE Head(ss) \o Flatten(Tail(ss))

\* for line, seq in lines.items(): for direction in ['F', 'B']: one list per
\* (line, direction), in loop order
LineDirs(ls) ==
    [k \in 1 .. 2 * Len(ls) |->
        [line |-> ls[(k + 1) \div 2][1],
         direction |-> IF k % 2 = 1 THEN "F" ELSE "B",
         path |-> Path(ls[(k + 1) \div 2][2], IF k % 2 = 1 THEN "F" ELSE "B")]]

\* the passes of the innermost loop "for station in path"
StationLoop(ls) ==
    LET ld == LineDirs(ls)
    IN Flatten([k \in DOMAIN ld |->
            [i \in 1 .. Len(ld[k].path) |->
                <<ld[k].line, ld[k].direction, ld[k].path[i]>>]])

\* the passes of "for i in range(len(path) - 1)"
PairLoop(ls) ==
    LET ld == LineDirs(ls)
    IN Flatten([k \in DOMAIN ld |->
            [i \in 1 .. Len(ld[k].path) - 1 |->
                <<ld[k].line, ld[k].direction, ld[k].path[i], ld[k].path[i + 1]>>]])

\* the passes of "for i, st in enumerate(path)": <<line, direction, st, i, len(path)>>
EnumLoop(ls) ==
    LET ld == LineDirs(ls)
    IN Flatten([k \in DOMAIN ld |->
            [i \in 1 .. Len(ld[k].path) |->
                <<ld[k].line, ld[k].direction, ld[k].path[i], i - 1, Len(ld[k].path)>>]])

\* create_event that does not advance the counter
create_event_NoIncrement(ev, el, ec, line, direction, station, event_type) ==
    [events |-> Put(ev, ec, <<line, direction, station, event_type>>),
     event_list |-> Append(el, ec),
     event_counter |-> ec,
     event_id |-> ec]

\* create_event: the state after the call and the returned id
create_event(ev, el, ec, line, direction, station, event_type) ==
    [events |-> Put(ev, ec, <<line, direction, station, event_type>>),
     event_list |-> Append(el, ec),
     event_counter |-> ec + 1,
     event_id |-> ec]

\* create_activity on the triple (activities, activity_counter, warnings)
create_activity(st, from_event, to_event, activity_type, lower_bound, upper_bound, weight) ==
    [st EXCEPT
        !.activities = Put(@, st.activity_counter,
            [from |-> from_event, to |-> to_event, type |-> activity_type,
             lower |-> lower_bound, upper |-> upper_bound, weight |-> weight]),
        !.activity_counter = @ + 1]

\* event_dict.get(key)
DictGet(d, k) == IF k \in DOMAIN d THEN d[k] ELSE NoEvent

\* the truth value of an event id in "if e1 and e2": None and 0 are false
Truthy(e) == e # NoEvent /\ e # 0

InitPESP ==
    /\ pc = "bn_event_D"
    /\ Q = 0 /\ q_nominal = None /\ routes = <<>>
    /\ IdleCvrp
    /\ IdleSim
    /\ IdleExt
    /\ IdleRec
    /\ IdleShap
    /\ IdleCP
    /\ lines \in LineInputs
    /\ travel_times \in TravelTimeInputs
    /\ events = <<>>
    /\ event_list = <<>>
    /\ event_counter = 0
    /\ activities = <<>>
    /\ activity_counter = 0
    /\ event_dict = <<>>
    /\ bi = 1
    /\ event_d = NoEvent
    /\ warnings = <<>>
    /\ headway_pairs = {}
    /\ y_vars = <<>>
    /\ constrs = <<>>

\* line 80: event_d = self.create_event(line, direction, station, 'D')
BuildEventD ==
    /\ pc = "bn_event_D"
    /\ \E p \in {StationLoop(lines)[bi]} :
        \E r \in {create_event(events, event_list, event_counter, p[1], p[2], p[3], "D")} :
          /\ events' = r.events
          /\ event_list' = r.event_list
          /\ event_counter' = r.event_counter
          /\ event_d' = r.event_id
    /\ pc' = "bn_event_A"
    /\ UNCHANGED <<cvrpVars, simVars, extVars, cpVars, lines, travel_times,
                   activities, activity_counter, event_dict, bi, warnings, solveVars, shapVars, recVars>>

\* lines 81-83: the arrival event and the two event_dict entries; next station
BuildEventA ==
    /\ pc = "bn_event_A"
    /\ \E p \in {StationLoop(lines)[bi]} :
        \E r \in {create_event(events, event_list, event_counter, p[1], p[2], p[3], "A")} :
          /\ events' = r.events
          /\ event_list' = r.event_list
          /\ event_counter' = r.event_counter
          /\ event_dict' = Put(Put(event_dict, <<p[1], p[2], p[3], "D">>, event_d),
                               <<p[1], p[2], p[3], "A">>, r.event_id)
    /\ bi' = bi + 1
    /\ pc' = IF bi + 1 > Len(StationLoop(lines)) THEN "bn_running" ELSE "bn_event_D"
    /\ UNCHANGED <<cvrpVars, simVars, extVars, cpVars, lines, travel_times,
                   activities, activity_counter, event_d, warnings, solveVars, shapVars, recVars>>

\* the look-up without the reversed orientation
TravelTime_ForwardOnly(tt, a, b) ==
    IF <<a, b>> \in DOMAIN tt THEN tt[<<a, b>>] ELSE NoTime

\* travel_times.get((a, b), travel_times.get((b, a)))
TravelTime(tt, a, b) ==
    IF <<a, b>> \in DOMAIN tt THEN tt[<<a, b>>]
    ELSE IF <<b, a>> \in DOMAIN tt THEN tt[<<b, a>>]
    ELSE NoTime

\* the body of the loops of _create_running_activities, pass by pass
RECURSIVE RunningFold(_, _, _, _)
RunningFold(items, st, tt, ed) ==
    IF items = <<>> THEN st
    ELSE LET p == Head(items)
             travel_time == TravelTime(tt, p[3], p[4])
         IN IF travel_time = NoTime
            THEN RunningFold(Tail(items),
                     [st EXCEPT !.warnings = Append(@, <<p[3], p[4]>>)], tt, ed)
            ELSE RunningFold(Tail(items),
                     create_activity(st, ed[<<p[1], p[2], p[3], "D">>],
                                     ed[<<p[1], p[2], p[4], "A">>],
                                     "running", travel_time, travel_time, 100),
                     tt, ed)

\* the first station is not skipped
DwellSkipped_LastOnly(i, n) == i = n - 1

\* if i == 0 or i == len(path) - 1: continue
DwellSkipped(i, n) == i = 0 \/ i = n - 1

\* the body of the loops of _create_dwell_activities
RECURSIVE DwellFold(_, _, _)
DwellFold(items, st, ed) ==
    IF items = <<>> THEN st
    ELSE LET p == Head(items)
         IN IF DwellSkipped(p[4], p[5])
            THEN DwellFold(Tail(items), st, ed)
            ELSE DwellFold(Tail(items),
                     create_activity(st, ed[<<p[1], p[2], p[3], "A">>],
                                     ed[<<p[1], p[2], p[3], "D">>], "dwell", 2, 8, 50),
                     ed)

\* shared_departures; every entry has directions ['F', 'B']
shared_departures ==
    << <<800, 3000, "Amr">>, <<800, 3000, "Asd">>, <<800, 3000, "Ut">>,
       <<800, 3500, "Ut">>, <<800, 3500, "Ehv">>,
       <<800, 3900, "Ehv">>, <<800, 3900, "Std">>,
       <<3000, 3100, "Ut">>, <<3000, 3100, "Nm">>,
       <<3100, 3500, "Shl">>, <<3100, 3500, "Ut">> >>

\* sync_pairs; every entry has directions ['F', 'B']
sync_pairs ==
    << <<800, 3000, "Asd">>, <<800, 3900, "Std">>,
       <<3000, 3100, "Ut">>, <<3100, 3500, "Shl">> >>

\* for l1, l2, station, directions in pairs: for direction in directions
DirectionLoop(pairs) ==
    Flatten([k \in DOMAIN pairs |->
        << <<pairs[k][1], pairs[k][2], pairs[k][3], "F">>,
           <<pairs[k][1], pairs[k][2], pairs[k][3], "B">> >>])

\* the body of the loops of _create_headway_activities
RECURSIVE HeadwayFold(_, _, _)
HeadwayFold(items, st, ed) ==
    IF items = <<>> THEN st
    ELSE LET p == Head(items)
             e1 == DictGet(ed, <<p[1], p[4], p[3], "D">>)
             e2 == DictGet(ed, <<p[2], p[4], p[3], "D">>)
         IN IF Truthy(e1) /\ Truthy(e2)
            THEN HeadwayFold(Tail(items),
                     create_activity(create_activity(st, e1, e2, "headway", 3, T, 0),
                                     e2, e1, "headway", 3, T, 0),
                     ed)
            ELSE HeadwayFold(Tail(items), st, ed)

\* the body of the loops of _create_synchronization_activities
RECURSIVE SyncFold(_, _, _)
SyncFold(items, st, ed) ==
    IF items = <<>> THEN st
    ELSE LET p == Head(items)
             e1 == DictGet(ed, <<p[1], p[4], p[3], "D">>)
             e2 == DictGet(ed, <<p[2], p[4], p[3], "D">>)
         IN IF Truthy(e1) /\ Truthy(e2)
            THEN SyncFold(Tail(items),
                     create_activity(st, e1, e2, "synchronization", 15, 15, 0), ed)
            ELSE SyncFold(Tail(items), st, ed)

InSeq(sq, v) == \E i \in DOMAIN sq : sq[i] = v

\* lines_ehv_to_ut = [ln for ln, stops in lines.items() if 'Ehv' in stops and 'Ut' in stops]
RECURSIVE lines_ehv_to_ut(_)
lines_ehv_to_ut(ls) ==
    IF ls = <<>> THEN <<>>
    ELSE (IF InSeq(Head(ls)[2], "Ehv") /\ InSeq(Head(ls)[2], "Ut")
          THEN <<Head(ls)[1]>> ELSE <<>>) \o lines_ehv_to_ut(Tail(ls))

\* first loop of _create_transfer_activities: Heerlen to Utrecht
RECURSIVE TransferToUtFold(_, _, _)
TransferToUtFold(lns, st, ed) ==
    IF lns = <<>> THEN st
    ELSE LET ev_3900_arr == DictGet(ed, <<3900, "B", "Ehv", "A">>)
             ev_dep == DictGet(ed, <<Head(lns), "F", "Ehv", "D">>)
         IN IF Truthy(ev_3900_arr) /\ Truthy(ev_dep)
            THEN TransferToUtFold(Tail(lns),
                     create_activity(st, ev_3900_arr, ev_dep, "transfer_Hrl_to_Ut", 2, 5, 30), ed)
            ELSE TransferToUtFold(Tail(lns), st, ed)

\* second loop of _create_transfer_activities: Utrecht to Heerlen
RECURSIVE TransferToHrlFold(_, _, _)
TransferToHrlFold(lns, st, ed) ==
    IF lns = <<>> THEN st
    ELSE LET ev_3900_dep == DictGet(ed, <<3900, "F", "Ehv", "D">>)
             ev_arr == DictGet(ed, <<Head(lns), "B", "Ehv", "A">>)
         IN IF Truthy(ev_arr) /\ Truthy(ev_3900_dep)
            THEN TransferToHrlFold(Tail(lns),
                     create_activity(st, ev_arr, ev_3900_dep, "transfer_Ut_to_Hrl", 2, 5, 30), ed)
            ELSE TransferToHrlFold(Tail(lns), st, ed)

ActState == [activities |-> activities, activity_counter |-> activity_counter,
             warnings |-> warnings]

\* an activity-creating method ran: its effect st, then on to the next method
ActStep(st, next) ==
    /\ activities' = st.activities
    /\ activity_counter' = st.activity_counter
    /\ warnings' = st.warnings
    /\ pc' = next
    /\ UNCHANGED <<cvrpVars, simVars, extVars, cpVars, lines, travel_times, events,
                   event_list, event_counter, event_dict, bi, event_d, solveVars, shapVars, recVars>>

\* self._create_running_activities(event_dict)
CreateRunning ==
    /\ pc = "bn_running"
    /\ ActStep(RunningFold(PairLoop(lines), ActState, travel_times, event_dict), "bn_dwell")

\* self._create_dwell_activities(event_dict)
CreateDwell ==
    /\ pc = "bn_dwell"
    /\ ActStep(DwellFold(EnumLoop(lines), ActState, event_dict), "bn_headway")

\* self._create_headway_activities(event_dict)
CreateHeadway ==
    /\ pc = "bn_headway"
    /\ ActStep(HeadwayFold(DirectionLoop(shared_departures), ActState, event_dict), "bn_sync")

\* self._create_synchronization_activities(event_dict)
CreateSynchronization ==
    /\ pc = "bn_sync"
    /\ ActStep(SyncFold(DirectionLoop(sync_pairs), ActState, event_dict), "bn_transfer")

\* self._create_transfer_activities(event_dict); return event_dict
CreateTransfer ==
    /\ pc = "bn_transfer"
    /\ ActStep(TransferToHrlFold(lines_ehv_to_ut(lines),
                   TransferToUtFold(lines_ehv_to_ut(lines), ActState, event_dict),
                   event_dict), "bn_done")

\* the pair without the sort
SortedPair_AsGiven(e1, e2) == <<e1, e2>>

\* pair = tuple(sorted([e1, e2]))
SortedPair(e1, e2) == IF e1 <= e2 THEN <<e1, e2>> ELSE <<e2, e1>>

\* solve_pesp, lines 233-247: the loop over activities.items(), which runs in
\* the order of the activity ids
RECURSIVE HeadwayPairsFold(_, _, _, _)
HeadwayPairsFold(a, n, acts, st) ==
    IF a >= n THEN st
    ELSE IF acts[a].type = "headway"
               /\ SortedPair(acts[a].from, acts[a].to) \notin st.headway_pairs
         THEN HeadwayPairsFold(a + 1, n, acts,
                  [headway_pairs |-> st.headway_pairs
                                       \cup {SortedPair(acts[a].from, acts[a].to)},
                   y_vars |-> Append(st.y_vars, <<acts[a].from, acts[a].to>>),
                   constrs |-> st.constrs \o
                       << [name |-> "hw_sep1", e1 |-> acts[a].from, e2 |-> acts[a].to],
                          [name |-> "hw_sep2", e1 |-> acts[a].from, e2 |-> acts[a].to] >>])
         ELSE HeadwayPairsFold(a + 1, n, acts, st)

\* solve_pesp after build_network: the headway separation part of the model
SolveHeadwayPairs ==
    /\ pc = "bn_done"
    /\ \E st \in {HeadwayPairsFold(0, activity_counter, activities,
                       [headway_pairs |-> {}, y_vars |-> <<>>, constrs |-> <<>>])} :
          /\ headway_pairs' = st.headway_pairs
          /\ y_vars' = st.y_vars
          /\ constrs' = st.constrs
    /\ pc' = "sp_done"
    /\ UNCHANGED <<cvrpVars, simVars, extVars, cpVars, lines, travel_times, events,
                   event_list, event_counter, activities, activity_counter,
                   event_dict, bi, event_d, warnings, shapVars, recVars>>

\* hw_sep1 and hw_sep2 for event times pi1 = pi[e1], pi2 = pi[e2] and binary y
HeadwaySep(c, pi1, pi2, y) ==
    IF c.name = "hw_sep1" THEN pi2 >= pi1 + 3 - T * y
    ELSE pi1 >= pi2 + 3 - T * (1 - y)

NextPESP ==
    \/ BuildEventD \/ BuildEventA \/ CreateRunning \/ CreateDwell
    \/ CreateHeadway \/ CreateSynchronization \/ CreateTransfer
    \/ SolveHeadwayPairs

SpecPESP == InitPESP /\ [][NextPESP]_vars

\* solve_pesp, lines 212-227: x[a] in [lower, upper], p[a] a non-negative
\* integer, x[a] == pi[to] - pi[from] + T * p[a], for event times in [0, T]
DurationConstraint(a, pi_from, pi_to) ==
    \E p \in 0 .. ((a.upper + T) \div T) :
        /\ a.lower <= pi_to - pi_from + T * p
        /\ pi_to - pi_from + T * p <= a.upper

---------------------------------------------------------------------------
(* Properties of the event-activity network *)

EventsBuilt == pc \notin {"bn_event_D", "bn_event_A"}

C6State ==
    /\ event_counter = Cardinality(DOMAIN events)
    /\ event_counter = Len(event_list)
    /\ DOMAIN events = 0 .. event_counter - 1
    /\ \A i \in DOMAIN event_list : event_list[i] = i - 1
    /\ \A k \in DOMAIN event_dict :
        /\ event_dict[k] \in DOMAIN events
        /\ events[event_dict[k]] = k
    /\ EventsBuilt =>
        /\ \A i \in DOMAIN lines : \A d \in {"F", "B"} : \A ty \in {"D", "A"} :
             \A k \in DOMAIN lines[i][2] :
               LET key == <<lines[i][1], d, lines[i][2][k], ty>>
               IN /\ Cardinality({e \in DOMAIN events : events[e] = key}) = 1
                  /\ key \in DOMAIN event_dict
        /\ \A e \in DOMAIN events :
             \E i \in DOMAIN lines : \E k \in DOMAIN lines[i][2] :
                /\ events[e][1] = lines[i][1]
                /\ events[e][3] = lines[i][2][k]
                /\ events[e][2] \in {"F", "B"}
                /\ events[e][4] \in {"D", "A"}

\* C6: build_network creates exactly one departure and one arrival event per
\* line, direction and station; ids are 0, 1, 2, ... in creation order,
\* event_counter = len(events) = len(event_list) throughout, and event_dict
\* maps each key to an event that stores that key.
C6_Events == C6State

C6_Witness ==
    /\ pc = "bn_done"
    /\ Len(lines) = 2
    /\ event_counter >= 12

ActsOfType(ty) == {a \in DOMAIN activities : activities[a].type = ty}

Between(ty, e1, e2) ==
    {a \in DOMAIN activities :
        activities[a].type = ty /\ activities[a].from = e1 /\ activities[a].to = e2}

KnownTimes(a, b) ==
    {travel_times[k] : k \in {<<a, b>>, <<b, a>>} \cap DOMAIN travel_times}

C9State ==
    pc \in {"bn_dwell", "bn_headway", "bn_sync", "bn_transfer", "bn_done"} =>
      \A pairs \in {PairLoop(lines)} :
        /\ \A i \in DOMAIN pairs : \A p \in {pairs[i]} :
             \A m \in {Between("running", event_dict[<<p[1], p[2], p[3], "D">>],
                                          event_dict[<<p[1], p[2], p[4], "A">>])} :
                IF KnownTimes(p[3], p[4]) # {}
                THEN /\ Cardinality(m) = 1
                     /\ \A a \in m :
                          /\ activities[a].lower = activities[a].upper
                          /\ activities[a].lower \in KnownTimes(p[3], p[4])
                ELSE /\ m = {}
                     /\ InSeq(warnings, <<p[3], p[4]>>)
        /\ Cardinality(ActsOfType("running")) =
               Cardinality({i \in DOMAIN pairs : KnownTimes(pairs[i][3], pairs[i][4]) # {}})
        /\ Len(warnings) =
               Cardinality({i \in DOMAIN pairs : KnownTimes(pairs[i][3], pairs[i][4]) = {}})

\* C9: for every line, direction and pair of consecutive stations whose
\* travel time is known in either orientation there is exactly one running
\* activity from the departure at the first to the arrival at the second, with
\* lower = upper = that travel time; for a pair with no known travel time no
\* activity is created, a warning is printed and the later pairs are handled.
C9_RunningActivities == C9State

C9_Witness ==
    /\ pc = "bn_done"
    /\ lines[1][2] = <<"Ehv", "Ut", "Asd">>
    /\ DOMAIN travel_times = {<<"Asd", "Ut">>, <<"Ut", "Asd">>}
    /\ Len(warnings) = 2
    /\ Cardinality(ActsOfType("running")) = 2

C10State ==
    pc \in {"bn_headway", "bn_sync", "bn_transfer", "bn_done"} =>
      \A stops \in {EnumLoop(lines)} :
        /\ \A i \in DOMAIN stops : \A p \in {stops[i]} :
             \A m \in {Between("dwell", event_dict[<<p[1], p[2], p[3], "A">>],
                                        event_dict[<<p[1], p[2], p[3], "D">>])} :
                IF 0 < p[4] /\ p[4] < p[5] - 1
                THEN /\ Cardinality(m) = 1
                     /\ \A a \in m : activities[a].lower = 2 /\ activities[a].upper = 8
                ELSE m = {}
        /\ \A a \in ActsOfType("dwell") :
             \A f \in {events[activities[a].from]} : \A g \in {events[activities[a].to]} :
                /\ f[1] = g[1] /\ f[2] = g[2] /\ f[3] = g[3]
                /\ f[4] = "A" /\ g[4] = "D"
                /\ \E i \in DOMAIN stops :
                     /\ stops[i][1] = f[1] /\ stops[i][2] = f[2] /\ stops[i][3] = f[3]
                     /\ 0 < stops[i][4] /\ stops[i][4] < stops[i][5] - 1

\* C10: for every line and direction exactly one dwell activity with bounds
\* [2, 8] goes from the arrival to the departure event of each intermediate
\* station; there is none at the first or last station of a path and none
\* between events of different lines, directions or stations.
C10_DwellActivities == C10State

C10_Witness ==
    /\ pc = "bn_done"
    /\ Len(lines) = 2
    /\ Len(lines[1][2]) = 3
    /\ Len(lines[2][2]) = 2
    /\ Cardinality(ActsOfType("dwell")) = 2

C8_SynchronizationExact ==
    pc \in {"bn_transfer", "bn_done"} =>
        \A k \in DOMAIN sync_pairs : \A d \in {"F", "B"} :
            LET k1 == <<sync_pairs[k][1], d, sync_pairs[k][3], "D">>
                k2 == <<sync_pairs[k][2], d, sync_pairs[k][3], "D">>
            IN (k1 \in DOMAIN event_dict /\ k2 \in DOMAIN event_dict) =>
                 LET m == Between("synchronization", event_dict[k1], event_dict[k2])
                 IN /\ Cardinality(m) = 1
                    /\ \A a \in m :
                         /\ activities[a].lower = 15 /\ activities[a].upper = 15
                         /\ \A t1 \in 0 .. T : \A t2 \in 0 .. T :
                              DurationConstraint(activities[a], t1, t2)
                                  => (t2 - t1) % T = 15

\* C11: for every line ln whose stop list holds both Ehv and Ut, exactly one
\* transfer_Hrl_to_Ut activity goes from 3900's direction-B arrival at Ehv to
\* ln's direction-F departure at Ehv and exactly one transfer_Ut_to_Hrl
\* activity from ln's direction-B arrival at Ehv to 3900's direction-F
\* departure at Ehv, each with bounds [2, 5], whenever both events exist.
C11_TransferBothWays ==
    pc = "bn_done" =>
        \A i \in DOMAIN lines :
            (InSeq(lines[i][2], "Ehv") /\ InSeq(lines[i][2], "Ut")) =>
                \A ln \in {lines[i][1]} :
                  /\ (<<3900, "B", "Ehv", "A">> \in DOMAIN event_dict
                        /\ <<ln, "F", "Ehv", "D">> \in DOMAIN event_dict) =>
                       \A m \in {Between("transfer_Hrl_to_Ut",
                                         event_dict[<<3900, "B", "Ehv", "A">>],
                                         event_dict[<<ln, "F", "Ehv", "D">>])} :
                          /\ Cardinality(m) = 1
                          /\ \A a \in m : activities[a].lower = 2 /\ activities[a].upper = 5
                  /\ (<<ln, "B", "Ehv", "A">> \in DOMAIN event_dict
                        /\ <<3900, "F", "Ehv", "D">> \in DOMAIN event_dict) =>
                       \A m \in {Between("transfer_Ut_to_Hrl",
                                         event_dict[<<ln, "B", "Ehv", "A">>],
                                         event_dict[<<3900, "F", "Ehv", "D">>])} :
                          /\ Cardinality(m) = 1
                          /\ \A a \in m : activities[a].lower = 2 /\ activities[a].upper = 5

\* the unordered pairs of events joined by at least one headway activity
JoinedByHeadway ==
    {{activities[a].from, activities[a].to} : a \in ActsOfType("headway")}

Abs(n) == IF n < 0 THEN -n ELSE n

C12State ==
    pc = "sp_done" =>
        /\ \A pr \in JoinedByHeadway :
             /\ Cardinality({i \in DOMAIN y_vars : {y_vars[i][1], y_vars[i][2]} = pr}) = 1
             /\ \A nm \in {"hw_sep1", "hw_sep2"} :
                  Cardinality({i \in DOMAIN constrs :
                      constrs[i].name = nm /\ {constrs[i].e1, constrs[i].e2} = pr}) = 1
        /\ Len(y_vars) = Cardinality(JoinedByHeadway)
        /\ Len(constrs) = 2 * Cardinality(JoinedByHeadway)
        /\ Cardinality(headway_pairs) = Cardinality(JoinedByHeadway)
        /\ \A i \in DOMAIN constrs : \A j \in DOMAIN constrs :
             (constrs[i].name = "hw_sep1" /\ constrs[j].name = "hw_sep2"
                /\ constrs[i].e1 = constrs[j].e1 /\ constrs[i].e2 = constrs[j].e2) =>
               \A pi1 \in 0 .. T : \A pi2 \in 0 .. T : \A y \in {0, 1} :
                 (HeadwaySep(constrs[i], pi1, pi2, y) /\ HeadwaySep(constrs[j], pi1, pi2, y)) =>
                    /\ y = 0 => pi2 >= pi1 + 3
                    /\ y = 1 => pi1 >= pi2 + 3
                    /\ 3 <= Abs(pi2 - pi1)
                    /\ Abs(pi2 - pi1) <= T - 3

\* C12: in solve_pesp every unordered pair of events joined by headway
\* activities gets exactly one binary variable y and one pair of separation
\* constraints, and event times in [0, T] meeting both constraints are at
\* least 3 and at most T - 3 apart, in the order y selects.
C12_HeadwaySeparation == C12State

C12_Witness ==
    /\ pc = "sp_done"
    /\ Len(y_vars) = 2
    /\ Len(constrs) = 4
    /\ Cardinality(ActsOfType("headway")) = 4

---------------------------------------------------------------------------
(* Shapley values of the three companies (Assignment3/solve_2.1(d).py).    *)
(* Coalition costs are objective values of solve_model, a number of opened *)
(* nodes, or 0 for an infeasible coalition.  shapley_values is held in     *)
(* units of 1/N!, so that the weights s!(N-s-1)!/N! are whole numbers.     *)

MaxCost == 2         \* largest coalition cost of an input

all_companies == <<"A", "B", "C">>

RangeOf(sq) == {sq[k] : k \in DOMAIN sq}

RECURSIVE Fact(_)
Fact(n) == IF n <= 1 THEN 1 ELSE n * Fact(n - 1)

RECURSIVE PrependAll(_, _)
PrependAll(h, ss) ==
    IF ss = <<>> THEN <<>> ELSE <<(<<h>> \o Head(ss))>> \o PrependAll(h, Tail(ss))

\* list(itertools.combinations(sq, r)), in the order itertools yields them
RECURSIVE combinations(_, _)
combinations(sq, r) ==
    IF r = 0 THEN << <<>> >>
    ELSE IF Len(sq) < r THEN <<>>
    ELSE PrependAll(Head(sq), combinations(Tail(sq), r - 1)) \o combinations(Tail(sq), r)

\* subsets: for r in range(1, 4): subsets.extend(combinations(all_companies, r))
subsets ==
    combinations(all_companies, 1) \o combinations(all_companies, 2)
        \o combinations(all_companies, 3)

\* remaining_companies = [c for c in all_companies if c != i]
remaining_companies(i) ==
    LET Keep(c) == c # i IN SelectSeq(all_companies, Keep)

\* S_list: for r in range(0, len(remaining_companies) + 1): extend(combinations(...))
S_list(i) ==
    combinations(remaining_companies(i), 0) \o combinations(remaining_companies(i), 1)
        \o combinations(remaining_companies(i), 2)

\* tuple(sorted(list(S) + [i])): company names sort in the order of all_companies
S_union_i(S0, i) ==
    LET In(c) == c \in RangeOf(S0) \cup {i} IN SelectSeq(all_companies, In)

\* val_S = v[S] if S in v else 0.0
val_S(vv, S0) == IF S0 \in DOMAIN vv THEN vv[S0] ELSE 0

\* every subset weighs the same
ShapleyWeight_Uniform(s_len, n) == Fact(n - 1)

\* weight * N! = factorial(s_len) * factorial(N - s_len - 1)
ShapleyWeight(s_len, n) == Fact(s_len) * Fact(n - s_len - 1)

\* term * N! for company i and subset S0
ShapleyTermOf(vv, i, S0) ==
    ShapleyWeight(Len(S0), Len(all_companies)) * (vv[S_union_i(S0, i)] - val_S(vv, S0))

\* lines 103-121: the coalition costs are known, shapley_values = {i: 0.0 ...}
InitShapley ==
    /\ pc = "sh_term"
    /\ Q = 0 /\ q_nominal = None /\ routes = <<>>
    /\ IdleCvrp
    /\ IdleSim
    /\ IdleExt
    /\ IdleRec
    /\ IdleCP
    /\ IdlePESP
    /\ v_coal \in [RangeOf(subsets) -> 0 .. MaxCost]
    /\ shapley_values = [c \in RangeOf(all_companies) |-> 0]
    /\ s_i = 1
    /\ s_j = 1

\* lines 132-145: one pass of "for S in S_list" for company i
ShapleyTerm ==
    /\ pc = "sh_term"
    /\ \E i \in {all_companies[s_i]} : \E sl \in {S_list(i)} :
         /\ shapley_values' =
               [shapley_values EXCEPT ![i] = @ + ShapleyTermOf(v_coal, i, sl[s_j])]
         /\ IF s_j < Len(sl)
            THEN s_j' = s_j + 1 /\ s_i' = s_i /\ pc' = pc
            ELSE /\ s_j' = 1
                 /\ s_i' = s_i + 1
                 /\ pc' = IF s_i < Len(all_companies) THEN "sh_term" ELSE "sh_done"
    /\ UNCHANGED <<cvrpVars, simVars, extVars, cpVars, pespVars, v_coal, recVars>>

NextShapley == ShapleyTerm

SpecShapley == InitShapley /\ [][NextShapley]_vars

\* the orderings of the companies
Orderings ==
    {o \in [1 .. Len(all_companies) -> RangeOf(all_companies)] :
        \A a \in DOMAIN o : \A b \in DOMAIN o : a # b => o[a] # o[b]}

\* the cost of a set of companies, the empty coalition costing 0
CostOf(cs) ==
    IF cs = {} THEN 0
    ELSE LET In(c) == c \in cs IN v_coal[SelectSeq(all_companies, In)]

\* i's marginal cost in ordering o
MarginalIn(o, i) ==
    LET pos == CHOOSE k \in DOMAIN o : o[k] = i
        pred == {o[k] : k \in 1 .. pos - 1}
    IN CostOf(pred \cup {i}) - CostOf(pred)

RECURSIVE SetSum(_, _, _)
SetSum(set, i, acc) ==
    IF set = {} THEN acc
    ELSE LET o == CHOOSE e \in set : TRUE
         IN SetSum(set \ {o}, i, acc + MarginalIn(o, i))

C13State ==
    pc = "sh_done" =>
        /\ \A i \in RangeOf(all_companies) :
             shapley_values[i] = SetSum(Orderings, i, 0)
        /\ shapley_values["A"] + shapley_values["B"] + shapley_values["C"]
               = Fact(Len(all_companies)) * v_coal[all_companies]

\* C13: for every cost function on the seven non-empty coalitions, the
\* computed Shapley value of each company is the average over the 3!
\* orderings of its marginal cost (here: N! times the value is the sum over
\* the orderings), and the three values add up to v(ABC).
C13_ShapleyValues == C13State

C13_Witness ==
    /\ pc = "sh_done"
    /\ v_coal[<<"A">>] = 2 /\ v_coal[<<"B">>] = 1 /\ v_coal[<<"A", "B">>] = 2 /\ v_coal[all_companies] = 2
    /\ shapley_values["A"] # shapley_values["B"]
    /\ shapley_values["C"] # 0

---------------------------------------------------------------------------
(* apply_refill_recourse (Assignment3/solve_1.2d_cvrp.py; solve_1.2e has   *)
(* the same function without the verbose output).  The capacity of an      *)
(* instance is at least 1.                                                 *)

\* routes given to the recourse: depot, customers, depot
RecourseRoutes ==
    { <<0, 1, 2, 3, 0>>, <<0, 3, 1, 2, 0>>, <<0, 2, 3, 0>>, <<0, 1, 0>> }

\* cost matrices of an instance: a symmetric one and one with C[a,b] # C[b,a]
CostInputs ==
    { [ab \in N \X N |-> IF ab[1] >= ab[2] THEN ab[1] - ab[2] ELSE ab[2] - ab[1]],
      [ab \in N \X N |-> IF ab[1] = ab[2] THEN 0 ELSE 1 + ((ab[1] + 2 * ab[2]) % 3)] }

\* for a, b in zip(route[:-1], route[1:]): base_cost += int(C[a, b])
RECURSIVE BaseCost(_, _)
BaseCost(r, cm) ==
    IF Len(r) < 2 THEN 0 ELSE cm[<<r[1], r[2]>>] + BaseCost(Tail(r), cm)

\* the detour without the way back
DetourCost_OneWay(cm, node) == cm[<<node, 0>>]

\* int(C[node, 0]) + int(C[0, node])
DetourCost(cm, node) == cm[<<node, 0>>] + cm[<<0, node>>]

Min(a, b) == IF a < b THEN a ELSE b

InitRecourse ==
    /\ pc = "rr_base"
    /\ Q \in 1 .. MaxCap
    /\ q_tilde \in {qt \in [N -> 0 .. MaxDemand] : qt[0] = 0}
    /\ q_nominal = None /\ routes = <<>>
    /\ IdleCvrp
    /\ t = 0 /\ totalV = <<>> /\ result = None
    /\ IdleExt
    /\ IdleCP
    /\ IdlePESP
    /\ IdleShap
    /\ route \in RecourseRoutes
    /\ C \in CostInputs
    /\ base_cost = 0 /\ extra = 0 /\ cap = 0
    /\ ri = 0 /\ rem = 0 /\ trace = <<>> /\ rec_result = None

\* lines 45-50: base_cost, extra = 0, cap = Q
RecourseBase ==
    /\ pc = "rr_base"
    /\ base_cost' = BaseCost(route, C)
    /\ extra' = 0
    /\ cap' = Q
    /\ ri' = 2
    /\ pc' = "rr_node"
    /\ UNCHANGED <<cvrpVars, simVars, extVars, cpVars, pespVars, shapVars,
                   route, C, rem, trace, rec_result>>

\* lines 56-77: one pass of "for node in route[1:]" up to the while loop
RecourseNode ==
    /\ pc = "rr_node"
    /\ IF ri > Len(route) \/ route[ri] = 0
       THEN /\ pc' = "rr_return"
            /\ UNCHANGED <<cap, ri, rem, trace>>
       ELSE IF q_tilde[route[ri]] <= cap
       THEN /\ cap' = cap - q_tilde[route[ri]]
            /\ trace' = Append(trace, [ev |-> "serve", node |-> route[ri],
                                       amount |-> q_tilde[route[ri]],
                                       cap_left |-> cap - q_tilde[route[ri]]])
            /\ ri' = ri + 1
            /\ pc' = "rr_node"
            /\ UNCHANGED rem
       ELSE /\ rem' = q_tilde[route[ri]] - cap
            /\ cap' = 0
            /\ trace' = Append(trace, [ev |-> "serve", node |-> route[ri],
                                       amount |-> cap, cap_left |-> 0])
            /\ pc' = "rr_refill"
            /\ UNCHANGED ri
    /\ UNCHANGED <<cvrpVars, simVars, extVars, cpVars, pespVars, shapVars,
                   route, C, base_cost, extra, rec_result>>

\* lines 80-91: one pass of "while rem > 0"
RecourseRefill ==
    /\ pc = "rr_refill"
    /\ rem > 0
    /\ extra' = extra + DetourCost(C, route[ri])
    /\ \E take \in {Min(Q, rem)} :
         /\ rem' = rem - take
         /\ cap' = Q - take
         /\ trace' = trace \o
               << [ev |-> "refill", node |-> route[ri], amount |-> 0, cap_left |-> Q],
                  [ev |-> "serve", node |-> route[ri], amount |-> take,
                   cap_left |-> Q - take] >>
         /\ IF rem - take > 0
            THEN pc' = "rr_refill" /\ ri' = ri
            ELSE pc' = "rr_node" /\ ri' = ri + 1
    /\ UNCHANGED <<cvrpVars, simVars, extVars, cpVars, pespVars, shapVars,
                   route, C, base_cost, rec_result>>

\* lines 93-94: recourse_cost = base_cost + extra; return
RecourseReturn ==
    /\ pc = "rr_return"
    /\ rec_result' = <<base_cost, base_cost + extra, extra>>
    /\ pc' = "rr_done"
    /\ UNCHANGED <<cvrpVars, simVars, extVars, cpVars, pespVars, shapVars,
                   route, C, base_cost, extra, cap, ri, rem, trace>>

NextRecourse ==
    \/ RecourseBase \/ RecourseNode \/ RecourseRefill \/ RecourseReturn

SpecRecourse == InitRecourse /\ [][NextRecourse]_vars

\* the customers of the route, in route order
RouteCustomers == SelectSeq(route, LAMBDA n : n # 0)

\* total demand of the first k customers of the route
RECURSIVE DemandUpTo(_)
DemandUpTo(k) == IF k = 0 THEN 0 ELSE DemandUpTo(k - 1) + q_tilde[RouteCustomers[k]]

\* refill trips needed to deliver d units: the first Q come from the start load
TripsFor(d) == IF d <= Q THEN 0 ELSE ((d + Q - 1) \div Q) - 1

\* refill trips made at the k-th customer
TripsAt(k) == TripsFor(DemandUpTo(k)) - TripsFor(DemandUpTo(k - 1))

RECURSIVE ExtraUpTo(_)
ExtraUpTo(k) ==
    IF k = 0 THEN 0
    ELSE ExtraUpTo(k - 1)
           + TripsAt(k) * (C[<<RouteCustomers[k], 0>>] + C[<<0, RouteCustomers[k]>>])

RECURSIVE ArcSum(_)
ArcSum(k) == IF k = 0 THEN 0 ELSE ArcSum(k - 1) + C[<<route[k], route[k + 1]>>]

\* amount delivered to node n according to the trace
RECURSIVE Delivered(_, _)
Delivered(tr, n) ==
    IF tr = <<>> THEN 0
    ELSE (IF Head(tr).ev = "serve" /\ Head(tr).node = n THEN Head(tr).amount ELSE 0)
           + Delivered(Tail(tr), n)

\* position of node n in the route
PosInRoute(n) == CHOOSE k \in DOMAIN route : route[k] = n

C14State ==
    /\ pc \in {"rr_node", "rr_refill", "rr_return", "rr_done"} =>
         /\ 0 <= cap /\ cap <= Q
         \* the trace visits the customers in route order
         /\ \A a \in DOMAIN trace : \A b \in DOMAIN trace :
              a < b => PosInRoute(trace[a].node) <= PosInRoute(trace[b].node)
         \* a refill follows a delivery that used up the remaining capacity
         /\ \A b \in DOMAIN trace :
              trace[b].ev = "refill" =>
                 /\ b > 1
                 /\ trace[b - 1].ev = "serve"
                 /\ trace[b - 1].node = trace[b].node
                 /\ trace[b - 1].cap_left = 0
    /\ pc = "rr_done" =>
         /\ rec_result[1] = ArcSum(Len(route) - 1)
         /\ rec_result[3] = ExtraUpTo(Len(RouteCustomers))
         /\ rec_result[2] = rec_result[1] + rec_result[3]
         /\ \A k \in DOMAIN RouteCustomers :
              /\ Delivered(trace, RouteCustomers[k]) = q_tilde[RouteCustomers[k]]
              /\ Cardinality({b \in DOMAIN trace :
                     trace[b].ev = "refill" /\ trace[b].node = RouteCustomers[k]})
                   = TripsAt(k)

\* C14: apply_refill_recourse returns (base_cost, recourse_cost, extra) with
\* base_cost the sum of C[a,b] over consecutive nodes of the route, extra the
\* sum over the refill trips of C[node,0] + C[0,node] and recourse_cost =
\* base_cost + extra; customers are served in route order, each in full, and
\* a refill is made only after the remaining capacity has been used.
C14_RefillRecourse == C14State

C14_Witness ==
    /\ pc = "rr_done"
    /\ route = <<0, 3, 1, 2, 0>>
    /\ Q = 1
    /\ q_tilde[3] = 2 /\ q_tilde[1] = 1 /\ q_tilde[2] = 2
    /\ rec_result[3] > 0
    /\ Len(trace) = 11

---------------------------------------------------------------------------
(* Properties of the iterations of run_cutting_plane *)

\* the step that ends an iteration: the simulation has returned
IterationEnds == pc = "cp_sim" /\ pc' = "cp_solve"

\* worst_q and worst_V are the most violating sample of this iteration's
\* simulation and its total violation
WorstOfSimulation ==
    /\ worst_V = SeqMax([i \in 1 .. KSamples |-> totalV[i - 1]])
    /\ worst_V = TotalViolation(routes, worst_q, Q)
    /\ worst_q \in SampleSpace(q_nominal)

C15Step ==
    /\ IterationEnds =>
         /\ WorstOfSimulation
         /\ IF worst_V > 0 /\ \A i \in DOMAIN S : S[i] # worst_q
            THEN S' = Append(S, worst_q)
            ELSE S' = S
    /\ S' # S =>
         /\ IterationEnds
         /\ worst_V > 0
         /\ \A i \in DOMAIN S : S[i] # worst_q
         /\ S' = Append(S, worst_q)

\* C15: an iteration appends a scenario to S only if its simulation found a
\* worst sample with total violation > 0 that equals no element of S, and
\* then appends exactly that sample; otherwise the iteration leaves S as it
\* is.
C15_AppendWorstOnly == [][C15Step]_vars

\* an iteration has appended its worst sample, a later one has left S alone
C15_Witness ==
    /\ pc = "cp_done"
    /\ Len(S) = 2
    /\ Len(history) = 3
    /\ history[1].S_size = 2
    /\ history[1].worst_demands_customers = [i \in CUST |-> S[2][i]]
    /\ history[2].max_violation = 0
    /\ history[3].S_size = 2

\* a solver call: the step taken from the top of the loop body
SolverCall == pc = "cp_solve" /\ it <= Iterations /\ pc' # pc

\* the solve of this iteration yields no incumbent
NoIncumbent == pc = "cp_solve" /\ it <= Iterations /\ pc' = "cp_done"

C16State ==
    /\ it >= 1 /\ it <= Iterations + 1
    \* one history entry per completed iteration, numbered 1, 2, ...
    /\ Len(history) <= Iterations
    /\ pc \in {"cp_solve", "cp_routes", "cp_sim"} => Len(history) = it - 1
    /\ pc = "cp_done" => Len(history) \in {it - 1}
    /\ \A i \in DOMAIN history : history[i].iteration = i
    /\ pc \in {"cp_solve", "cp_done"} /\ history # <<>> =>
           history[Len(history)].S_size = Len(S)

C16Step ==
    \* the it-th solver call is made after it - 1 completed iterations
    /\ SolverCall => it <= Iterations /\ Len(history) = it - 1
    \* no incumbent: nothing but the stop
    /\ NoIncumbent =>
         /\ S' = S /\ history' = history /\ it' = it
         /\ t' = t /\ totalV' = totalV /\ worst_q' = worst_q /\ worst_V' = worst_V
         /\ routes' = routes
    \* nothing follows the end of the loop
    /\ pc # "cp_done"
    \* the simulation runs only after a solve that found an incumbent
    /\ pc' = "cp_sim" => pc \in {"cp_routes", "cp_sim"}
    /\ pc' = "cp_routes" => pc = "cp_solve"
    \* an iteration with an incumbent appends exactly one entry, at its end
    /\ history' # history =>
         /\ pc = "cp_sim" /\ pc' = "cp_solve" /\ it' = it + 1
         /\ Len(history') = Len(history) + 1
         /\ \A i \in DOMAIN history : history'[i] = history[i]
         /\ history'[Len(history')].iteration = it
         /\ history'[Len(history')].S_size = Len(S')
    /\ (pc = "cp_sim" /\ pc' = "cp_solve") => Len(history') = Len(history) + 1
    /\ it' # it => it' = it + 1 /\ history' # history

\* a bound on the number of steps still to come: the iterations not yet
\* begun, and the solve, route extraction, samples and update of this one
StepsLeft ==
    IF pc = "cp_done" THEN 0
    ELSE (Iterations + 1 - it) * (KSamples + 3)
           + (CASE pc = "cp_solve" -> KSamples + 2
                [] pc = "cp_routes" -> KSamples + 1
                [] pc = "cp_sim" -> KSamples - t)

\* C16: run_cutting_plane makes at most `iterations` solver calls and then
\* terminates; a solve without incumbent stops the loop at once, with no
\* simulation, no change of S, no history entry and no later iteration; every
\* iteration with an incumbent appends exactly one history entry whose S_size
\* is |S| after the iteration.  Termination: a step is possible until the
\* loop has ended, and every step lowers StepsLeft, which is never negative.
C16_LoopAndHistory ==
    /\ [](C16State)
    /\ [][C16Step]_vars
    /\ [](StepsLeft >= 0 /\ (pc # "cp_done" => ENABLED NextCP))
    /\ [][StepsLeft' < StepsLeft]_vars

\* the loop stopped at the second solve: one entry, and S has grown once
C16_Witness ==
    /\ pc = "cp_done"
    /\ it = 2
    /\ it <= Iterations
    /\ Len(history) = 1
    /\ history[1].S_size = 2
    /\ Len(S) = 2

=============================================================================
